---------------------------- MODULE Spec2Model ----------------------------
(***************************************************************************)
(* A model of app.py, the Flask front-end over the yt-dlp extraction       *)
(* library: URL validation, the cookie file written at start-up, the       *)
(* options builder, get_video_info and its retry wrapper behind            *)
(* POST /get_formats, and POST /download served by two workers that share  *)
(* the download folder.                                                    *)
(*                                                                         *)
(* Strings whose content the code inspects (URLs, form fields, the         *)
(* library's error text) are sequences of fragments, so that strip(),      *)
(* urlparse() and the `in` substring test are computed, not assumed.       *)
(* Python dicts are functions; a missing key is a key outside DOMAIN.      *)
(***************************************************************************)
EXTENDS Integers, Sequences, FiniteSets, TLC

VARIABLES
    \* harness applying is_valid_youtube_url to one string
    v_url, v_done, v_result,
    \* the process: environment, cookie file, start-up, options builder
    environ, cookie_file, proc, env_reads, startup_ret, extra_in, opts_out,
    \* one POST /get_formats request (or one direct call of the retry wrapper)
    f_pc, f_entry, f_url, f_n, f_attempt, f_trace, f_last, f_calls, f_response,
    \* POST /download, one request per worker, and the download folder
    d_pc, d_url, d_quality, d_path, d_calls, d_exc, d_response, d_requests, fs

urlVars  == <<v_url, v_done, v_result>>
procVars == <<environ, cookie_file, proc, env_reads, startup_ret, extra_in, opts_out>>
infoVars == <<f_pc, f_entry, f_url, f_n, f_attempt, f_trace, f_last, f_calls, f_response>>
dlVars   ==
    <<d_pc, d_url, d_quality, d_path, d_calls, d_exc, d_response, d_requests, fs>>
vars     == <<urlVars, procVars, infoVars, dlVars>>

(***************************************************************************)
(* Bounds of the model.                                                    *)
(***************************************************************************)
MaxHostLen == 3     \* fragments in the authority part of a URL
MaxMsgLen  == 2     \* fragments in the library's error text
MaxFormats == 2     \* entries in info["formats"]
MaxRetries == 3     \* largest max_retries passed to the retry wrapper
MaxBlobLen == 4     \* characters in the YOUTUBE_COOKIES_B64 value
MaxRequests == 3    \* POST /download requests received

(***************************************************************************)
(* Strings and dicts.                                                      *)
(***************************************************************************)
\* A value that is no string, dict or number: Python's None / a missing file.
None == "<None>"

SeqsUpTo(S, n) == UNION { [1..k -> S] : k \in 0..n }

\* needle in haystack, for str: a contiguous run of the haystack's fragments.
Contains(haystack, needle) ==
    \E i \in 0..(Len(haystack) - Len(needle)) :
        \A j \in 1..Len(needle) : haystack[i + j] = needle[j]

IsSpace(c) == c = " "

RECURSIVE LStrip(_)
LStrip(s) == IF s # <<>> /\ IsSpace(Head(s)) THEN LStrip(Tail(s)) ELSE s

RECURSIVE RStrip(_)
RStrip(s) ==
    IF s # <<>> /\ IsSpace(s[Len(s)]) THEN RStrip(SubSeq(s, 1, Len(s) - 1)) ELSE s

\* str.strip()
Strip(s) == RStrip(LStrip(s))

\* dict.get(key, default)
Get(d, key, default) == IF key \in DOMAIN d THEN d[key] ELSE default

\* d.update(e), as a new dict
Update(d, e) ==
    [k \in DOMAIN d \cup DOMAIN e |-> IF k \in DOMAIN e THEN e[k] ELSE d[k]]

EmptyDict == [k \in {} |-> None]

\* Every dict whose keys are a subset of full's keys, with full's values.
SubDicts(full) == { [k \in K |-> full[k]] : K \in SUBSET DOMAIN full }

(***************************************************************************)
(* is_valid_youtube_url.                                                   *)
(***************************************************************************)
Schemes == { "https:", "http:" }
PathDelims == { "/", "?", "#" }

\* The index of the first fragment of s, from i on, that is in D; Len(s)+1 if none.
RECURSIVE FirstIn(_, _, _)
FirstIn(s, D, i) ==
    IF i > Len(s) THEN i
    ELSE IF s[i] \in D THEN i
    ELSE FirstIn(s, D, i + 1)

\* urlparse(url).netloc: after the optional scheme, the text between a
\* leading "//" and the first of "/", "?", "#"; empty without the "//".
\* urlparse raises ValueError on an authority with an unbalanced bracket.
UrlRest(url) == IF url # <<>> /\ Head(url) \in Schemes THEN Tail(url) ELSE url

HasNetloc(url) == UrlRest(url) # <<>> /\ Head(UrlRest(url)) = "//"

Netloc(url) ==
    IF HasNetloc(url)
    THEN SubSeq(UrlRest(url), 2, FirstIn(UrlRest(url), PathDelims, 2) - 1)
    ELSE <<>>

UrlparseRaises(url) ==
    LET n == Netloc(url)
        has(c) == \E i \in 1..Len(n) : n[i] = c
    IN  (has("[") /\ ~has("]")) \/ (has("]") /\ ~has("["))

valid_domains ==
    { <<"youtube.com">>, <<"youtu.be">>, <<"www.", "youtube.com">>,
      <<"m.", "youtube.com">> }

is_valid_youtube_url(url) ==
    IF UrlparseRaises(url)
    THEN FALSE
    ELSE \E domain \in valid_domains : Contains(Netloc(url), domain)

\* The strings the harness and the requests draw URLs from.
HostFragments ==
    { "youtube.com", "youtu.be", "www.", "m.", "not", "evil.org", ".", "@", "[" }

Hosts == SeqsUpTo(HostFragments, MaxHostLen)

UrlStrings ==
    { s \o a \o h \o p :
        s \in { <<>>, <<"https:">> },
        a \in { <<>>, <<"//">> },
        h \in Hosts,
        p \in { <<>>, <<"/", "watch">> } }

(***************************************************************************)
(* The harness of is_valid_youtube_url: one string, one application.       *)
(***************************************************************************)
UrlInit ==
    /\ v_url \in UrlStrings
    /\ v_done = FALSE
    /\ v_result = FALSE

UrlIdle ==
    /\ v_url = <<>>
    /\ v_done = FALSE
    /\ v_result = FALSE

Validate ==
    /\ ~v_done
    /\ v_done' = TRUE
    /\ v_result' = is_valid_youtube_url(v_url)
    /\ UNCHANGED <<v_url, procVars, infoVars, dlVars>>

(***************************************************************************)
(* Start-up: write_cookiefile_from_env, and build_ydl_opts.                *)
(***************************************************************************)
COOKIE_PATH == "/tmp/youtube.com_cookies.txt"
DOWNLOAD_FOLDER == "/tmp/downloads"

\* The characters of the environment value, by what b64decode does with
\* them: a character of the base64 alphabet, the pad, any other character.
B64Chars == { "Q", "=", "!" }

\* binascii.a2b_base64 without strict mode: characters outside the alphabet
\* are skipped, a pad that completes a quad ends the input, and an input
\* that ends inside a quad is an error.  The result is the number of bytes.
RECURSIVE a2b_base64(_, _, _, _, _)
a2b_base64(s, i, quad_pos, pads, n) ==
    IF i > Len(s)
    THEN [ok |-> quad_pos = 0, size |-> n]
    ELSE IF s[i] = "="
    THEN IF quad_pos >= 2 /\ quad_pos + pads + 1 >= 4
         THEN [ok |-> TRUE, size |-> n]
         ELSE a2b_base64(s, i + 1, quad_pos,
                         IF quad_pos >= 2 THEN pads + 1 ELSE pads, n)
    ELSE IF s[i] = "Q"
    THEN a2b_base64(s, i + 1, (quad_pos + 1) % 4, 0,
                    IF quad_pos = 0 THEN n ELSE n + 1)
    ELSE a2b_base64(s, i + 1, quad_pos, pads, n)

b64decode(s) == a2b_base64(s, 1, 0, 0, 0)

NoFile == [exists |-> FALSE, size |-> 0]

\* What the file system does to open(COOKIE_PATH, "wb") and f.write(data).
IoOutcomes == { "ok", "open_fails", "write_fails" }

\* write_cookiefile_from_env: the value it returns and the file it leaves.
write_cookiefile_from_env(env, file, io) ==
    IF ~env.set \/ env.value = <<>>
    THEN [ret |-> FALSE, file |-> file]
    ELSE IF ~b64decode(env.value).ok
    THEN [ret |-> FALSE, file |-> file]
    ELSE IF io = "open_fails"
    THEN [ret |-> FALSE, file |-> file]
    ELSE IF io = "write_fails"
    THEN [ret |-> FALSE, file |-> [exists |-> TRUE, size |-> 0]]
    ELSE [ret |-> TRUE,
          file |-> [exists |-> TRUE, size |-> b64decode(env.value).size]]

http_headers ==
    [k \in { "User-Agent", "Accept", "Accept-Language", "Accept-Encoding",
             "Connection" } |->
        CASE k = "User-Agent" -> "Mozilla/5.0"
          [] k = "Accept" -> "text/html,application/xhtml+xml,application/xml;q=0.9,*/*;q=0.8"
          [] k = "Accept-Language" -> "en-us,en;q=0.5"
          [] k = "Accept-Encoding" -> "gzip, deflate"
          [] OTHER -> "keep-alive"]

DefaultOpts ==
    ( "quiet" :> TRUE ) @@ ( "no_warnings" :> TRUE ) @@
    ( "noplaylist" :> TRUE ) @@ ( "ignoreerrors" :> FALSE ) @@
    ( "extract_flat" :> FALSE ) @@ ( "http_headers" :> http_headers ) @@
    ( "outtmpl" :> "/tmp/downloads/%(title).100s.%(ext)s" )

\* A faulty variant: the cookie file is named whether or not it exists.
build_ydl_opts_always(extra, cookie_exists) ==
    Update(DefaultOpts @@ ( "cookiefile" :> COOKIE_PATH ), extra)

\* build_ydl_opts(extra); extra = None is the empty dict, both are falsy.
build_ydl_opts(extra, cookie_exists) ==
    LET opts == IF cookie_exists
                THEN DefaultOpts @@ ( "cookiefile" :> COOKIE_PATH )
                ELSE DefaultOpts
    IN  IF extra # EmptyDict THEN Update(opts, extra) ELSE opts

\* The environment before start-up.
Environs ==
    { [set |-> FALSE, value |-> <<>>] } \cup
    { [set |-> TRUE, value |-> v] : v \in SeqsUpTo(B64Chars, MaxBlobLen) }

\* A cookie file left by an earlier run of the program.
StaleFile == [exists |-> TRUE, size |-> 9]

\* The extra dicts a caller may pass.
Extras ==
    SubDicts(( "skip_download" :> TRUE ) @@ ( "quiet" :> FALSE ) @@
             ( "format" :> <<"bestaudio/best">> ) @@
             ( "cookiefile" :> "/tmp/other.txt" ))

\* The module is being imported: line 51 has not run yet.
ProcInitBoot ==
    /\ environ \in Environs
    /\ cookie_file \in { NoFile, StaleFile }
    /\ proc = "startup"
    /\ env_reads = 0
    /\ startup_ret = FALSE
    /\ extra_in = EmptyDict
    /\ opts_out = EmptyDict

\* The module has been imported: the cookie file was written or not.
ProcInitServing ==
    /\ environ = [set |-> FALSE, value |-> <<>>]
    /\ cookie_file \in { NoFile, StaleFile }
    /\ proc = "serving"
    /\ env_reads = 1
    /\ startup_ret = FALSE
    /\ extra_in = EmptyDict
    /\ opts_out = EmptyDict

\* Line 51: write_cookiefile_from_env(), its result dropped.
Startup ==
    /\ proc = "startup"
    /\ \E io \in IoOutcomes :
        LET r == write_cookiefile_from_env(environ, cookie_file, io)
        IN  /\ cookie_file' = r.file
            /\ startup_ret' = r.ret
    /\ env_reads' = env_reads + 1
    /\ proc' = "serving"
    /\ UNCHANGED <<environ, extra_in, opts_out, urlVars, infoVars, dlVars>>

\* A handler builds an options dict.
BuildOpts ==
    /\ proc = "serving"
    /\ \E extra \in Extras :
        /\ extra_in' = extra
        /\ opts_out' = build_ydl_opts(extra, cookie_file.exists)
    /\ UNCHANGED <<environ, cookie_file, proc, env_reads, startup_ret,
                   urlVars, infoVars, dlVars>>

(***************************************************************************)
(* What the extraction library returns or raises.                          *)
(***************************************************************************)
Heights == { 0, 100, 144, 720, 1080 }

\* One entry of info["formats"]: a dict in which either key may be missing.
Formats ==
    { v @@ h :
        v \in { EmptyDict, ( "vcodec" :> "none" ), ( "vcodec" :> "avc1" ) },
        h \in { EmptyDict } \cup { ( "height" :> x ) : x \in Heights } }

FullScalars ==
    ( "title" :> "Some Title" ) @@
    ( "thumbnail" :> "https://i.ytimg.com/vi/x/hq.jpg" ) @@
    ( "duration" :> 212 ) @@ ( "uploader" :> "Some Channel" ) @@
    ( "view_count" :> 1000 )

\* Info dicts with any scalar key missing and at most one format ...
InfosNarrow ==
    SubDicts(FullScalars) \cup
    { sc @@ ( "formats" :> fm ) :
        sc \in SubDicts(FullScalars), fm \in SeqsUpTo(Formats, 1) }

\* ... and info dicts with every scalar key and up to MaxFormats formats.
InfosWide ==
    { FullScalars @@ ( "formats" :> fm ) : fm \in SeqsUpTo(Formats, MaxFormats) }

MsgFragments ==
    { "Private video", "Members-only", "Sign in", "login", "Login",
      "Video unavailable", "Too Many Requests", "429", "Unsupported URL",
      "ERROR:" }

OutcomesOf(infos, msgs) ==
    { [kind |-> "ok", info |-> i, msg |-> <<>>] : i \in infos } \cup
    { [kind |-> "DownloadError", info |-> EmptyDict, msg |-> m] : m \in msgs } \cup
    { [kind |-> k, info |-> EmptyDict, msg |-> <<>>] :
        k \in { "ExtractorError", "UnicodeDecodeError", "Exception" } }

\* The outcomes a direct call of get_video_info is tried on.
Outcomes ==
    OutcomesOf(InfosNarrow \cup InfosWide, SeqsUpTo(MsgFragments, MaxMsgLen))

\* A video format and an audio-only format that carries a height.
SampleFormats ==
    << ( "vcodec" :> "avc1" ) @@ ( "height" :> 720 ),
       ( "vcodec" :> "none" ) @@ ( "height" :> 144 ) >>

\* Info dicts with any scalar key missing, without formats or with the sample.
InfosRequest ==
    SubDicts(FullScalars) \cup
    { sc @@ ( "formats" :> SampleFormats ) : sc \in SubDicts(FullScalars) }

\* The outcomes each attempt of a request is tried on.
RequestOutcomes == OutcomesOf(InfosRequest, SeqsUpTo(MsgFragments, 1))

\* No second library call was made.
NoOutcome == [kind |-> "none", info |-> EmptyDict, msg |-> <<>>]

(***************************************************************************)
(* get_video_info.                                                         *)
(***************************************************************************)
\* str.lower() on a fragment.
Lower(c) ==
    CASE c = "Private video" -> "private video"
      [] c = "Members-only" -> "members-only"
      [] c = "Sign in" -> "sign in"
      [] c = "Login" -> "login"
      [] c = "Video unavailable" -> "video unavailable"
      [] c = "Too Many Requests" -> "too many requests"
      [] c = "Unsupported URL" -> "unsupported url"
      [] c = "ERROR:" -> "error:"
      [] OTHER -> c

LowerStr(s) == [i \in 1..Len(s) |-> Lower(s[i])]

Error(text) == ( "error" :> <<text>> )

MsgPrivate == Error("This video is private and cannot be accessed")
MsgMembers == Error("This is a members-only video")
MsgBlocked ==
    Error("blocked") @@
    ( "message" :> <<"YouTube is requiring login. This server needs authentication cookies to access this video.">> )
MsgUnavailable == Error("This video is unavailable or has been removed")
MsgRateLimit ==
    Error("YouTube is blocking requests due to rate limiting. Please try again later.")
MsgUnsupported == Error("Unsupported URL or invalid YouTube link")
MsgGeneric(error_msg) == ( "error" :> <<"YouTube error: ">> \o error_msg )

\* A faulty variant: the login test comes first.
ClassifyLoginFirst(error_msg) ==
    IF Contains(error_msg, <<"Sign in">>) \/ Contains(LowerStr(error_msg), <<"login">>)
    THEN MsgBlocked
    ELSE IF Contains(error_msg, <<"Private video">>) THEN MsgPrivate
    ELSE IF Contains(error_msg, <<"Members-only">>) THEN MsgMembers
    ELSE IF Contains(error_msg, <<"Video unavailable">>) THEN MsgUnavailable
    ELSE IF Contains(error_msg, <<"Too Many Requests">>) \/ Contains(error_msg, <<"429">>)
    THEN MsgRateLimit
    ELSE IF Contains(error_msg, <<"Unsupported URL">>) THEN MsgUnsupported
    ELSE MsgGeneric(error_msg)

\* The except yt_dlp.utils.DownloadError branch.
Classify(error_msg) ==
    IF Contains(error_msg, <<"Private video">>) THEN MsgPrivate
    ELSE IF Contains(error_msg, <<"Members-only">>) THEN MsgMembers
    ELSE IF Contains(error_msg, <<"Sign in">>) \/ Contains(LowerStr(error_msg), <<"login">>)
    THEN MsgBlocked
    ELSE IF Contains(error_msg, <<"Video unavailable">>) THEN MsgUnavailable
    ELSE IF Contains(error_msg, <<"Too Many Requests">>) \/ Contains(error_msg, <<"429">>)
    THEN MsgRateLimit
    ELSE IF Contains(error_msg, <<"Unsupported URL">>) THEN MsgUnsupported
    ELSE MsgGeneric(error_msg)

\* f.get("height") and f.get("height") >= 144
HeightOk(f) == "height" \in DOMAIN f /\ f["height"] # 0 /\ f["height"] >= 144

\* f.get('vcodec') != 'none'
IsVideo(f) == "vcodec" \notin DOMAIN f \/ f["vcodec"] # "none"

Range(seq) == { seq[i] : i \in 1..Len(seq) }

Max(S) == CHOOSE m \in S : \A x \in S : x <= m

\* sorted(S, reverse=True)
RECURSIVE SortedDesc(_)
SortedDesc(S) == IF S = {} THEN <<>> ELSE <<Max(S)>> \o SortedDesc(S \ {Max(S)})

\* [str(r) + "p" for r in resolutions] + ['mp3']
Render(resolutions) ==
    [i \in 1..Len(resolutions) |-> ToString(resolutions[i]) \o "p"] \o <<"mp3">>

\* The retry path's heights: every format counts, video or not.
HeightsOfAll(formats) ==
    { f["height"] : f \in { g \in Range(formats) : HeightOk(g) } }

\* A faulty variant: the normal path counts audio-only formats too.
HeightsIgnoringCodec(formats) ==
    { f["height"] : f \in { g \in Range(formats) : HeightOk(g) } }

\* The normal path's heights: lines 102-106.
HeightsOfVideo(formats) ==
    { f["height"] : f \in { g \in Range(formats) : IsVideo(g) /\ HeightOk(g) } }

\* A faulty variant: a default is dropped.
ResultFieldsNoDefault(info, resolutions) ==
    ( "title" :> Get(info, "title", "Unknown Title") ) @@
    ( "thumbnail" :> Get(info, "thumbnail", "") ) @@
    ( "duration" :> Get(info, "duration", 0) ) @@
    ( "resolutions" :> Render(resolutions) ) @@
    ( IF "uploader" \in DOMAIN info
      THEN ( "uploader" :> info["uploader"] ) ELSE EmptyDict )

\* The five fields both success paths return.
ResultFields(info, resolutions) ==
    ( "title" :> Get(info, "title", "Unknown Title") ) @@
    ( "thumbnail" :> Get(info, "thumbnail", "") ) @@
    ( "duration" :> Get(info, "duration", 0) ) @@
    ( "resolutions" :> Render(resolutions) ) @@
    ( "uploader" :> Get(info, "uploader", "Unknown") )

\* Lines 97-118.
NormalResult(info) ==
    ResultFields(info, SortedDesc(HeightsOfVideo(Get(info, "formats", <<>>)))) @@
    ( "view_count" :> Get(info, "view_count", 0) )

\* Lines 156-167.
RetryResult(info) ==
    ResultFields(info, SortedDesc(HeightsOfAll(Get(info, "formats", <<>>))))

SimplifiedOpts ==
    ( "quiet" :> TRUE ) @@ ( "skip_download" :> TRUE ) @@ ( "no_warnings" :> TRUE )

LibCall(url, download, opts) == [url |-> url, download |-> download, opts |-> opts]

\* get_video_info(url): its result and the library calls it made, given
\* what the library does on the first call (o1) and on the second (o2).
get_video_info(url, cookie_exists, o1, o2) ==
    LET call1 == LibCall(url, FALSE,
                         build_ydl_opts(( "skip_download" :> TRUE ), cookie_exists))
        call2 == LibCall(url, FALSE, SimplifiedOpts)
    IN  IF url = <<>> \/ Strip(url) = <<>>
        THEN [result |-> Error("No URL provided"), calls |-> <<>>]
        ELSE IF ~is_valid_youtube_url(url)
        THEN [result |-> Error("Invalid YouTube URL. Please use a valid YouTube link."),
              calls |-> <<>>]
        ELSE CASE o1.kind = "ok" ->
                    [result |-> NormalResult(o1.info), calls |-> <<call1>>]
               [] o1.kind = "DownloadError" ->
                    [result |-> Classify(o1.msg), calls |-> <<call1>>]
               [] o1.kind = "ExtractorError" ->
                    [result |-> Error("Failed to extract video information. The video might be restricted."),
                     calls |-> <<call1>>]
               [] o1.kind = "UnicodeDecodeError" ->
                    [result |-> IF o2.kind = "ok"
                                THEN RetryResult(o2.info)
                                ELSE Error("Character encoding issue. Please try a different video."),
                     calls |-> <<call1, call2>>]
               [] OTHER ->
                    [result |-> Error("Failed to fetch video information. Please check the URL and try again."),
                     calls |-> <<call1>>]

\* Whether get_video_info reaches the library at all.
ReachesLibrary(url) ==
    ~(url = <<>> \/ Strip(url) = <<>>) /\ is_valid_youtube_url(url)

(***************************************************************************)
(* Idle values of the request variables.                                   *)
(***************************************************************************)
Workers == { 1, 2 }

NoResponse == [status |-> 0, kind |-> "none", body |-> EmptyDict]

NoLast ==
    [called |-> FALSE, url |-> <<>>, o1 |-> NoOutcome, o2 |-> NoOutcome,
     result |-> EmptyDict]

InfoIdle ==
    /\ f_pc = "idle"
    /\ f_entry = "none"
    /\ f_url = <<>>
    /\ f_n = 0
    /\ f_attempt = 0
    /\ f_trace = <<>>
    /\ f_last = NoLast
    /\ f_calls = <<>>
    /\ f_response = NoResponse

DlIdle ==
    /\ d_pc = [w \in Workers |-> "idle"]
    /\ d_url = [w \in Workers |-> <<>>]
    /\ d_quality = [w \in Workers |-> <<>>]
    /\ d_path = [w \in Workers |-> <<>>]
    /\ d_calls = [w \in Workers |-> <<>>]
    /\ d_exc = [w \in Workers |-> "none"]
    /\ d_response = [w \in Workers |-> NoResponse]
    /\ d_requests = 0
    /\ fs = EmptyDict

(***************************************************************************)
(* get_video_info called once, get_video_info_with_retry, /get_formats.    *)
(***************************************************************************)
DefaultMaxRetries == 2
SleepSeconds == 1

YouTubeUrl == <<"https:", "//", "www.", "youtube.com", "/", "watch">>

\* URLs without surrounding whitespace, as a request may carry them.
RequestUrls ==
    { <<>>,
      YouTubeUrl,
      <<"https:", "//", "youtu.be", "/", "watch">>,
      <<"https:", "//", "not", "youtube.com", "/", "watch">>,
      <<"https:", "//", "evil.org", "/", "watch">>,
      <<"youtube.com", "/", "watch">> }

Pads == { <<>>, <<" ">> }

\* The raw values of a form field holding a URL.
RawUrls == { l \o u \o r : l \in Pads, u \in RequestUrls, r \in Pads }

\* The arguments of a direct call: no whitespace around a non-empty URL.
DirectUrls == RequestUrls \cup { <<" ">> }

CallEvent == [ev |-> "call", secs |-> 0]
SleepEvent == [ev |-> "sleep", secs |-> SleepSeconds]

AllFailed == Error("All attempts failed. Please try again later.")

\* One call get_video_info(url) with the library behaving as o1, o2.
Called(url, o1, o2) ==
    [called |-> TRUE, url |-> url, o1 |-> o1, o2 |-> o2,
     result |-> get_video_info(url, cookie_file.exists, o1, o2).result]

\* The harness of get_video_info: one direct call.
CallGetVideoInfo ==
    /\ f_pc = "idle"
    /\ proc = "serving"
    /\ \E url \in DirectUrls :
        \E o1 \in IF ReachesLibrary(url) THEN Outcomes ELSE { NoOutcome } :
            \E o2 \in IF o1.kind = "UnicodeDecodeError" THEN Outcomes ELSE { NoOutcome } :
                /\ f_last' = Called(url, o1, o2)
                /\ f_calls' = get_video_info(url, cookie_file.exists, o1, o2).calls
                /\ f_url' = url
    /\ f_pc' = "done"
    /\ f_entry' = "info"
    /\ UNCHANGED <<f_n, f_attempt, f_trace, f_response, urlVars, procVars, dlVars>>

\* Line 243: if not url.
EmptyUrl(url) == url = <<>>

\* POST /get_formats up to the call of get_video_info_with_retry(url).
GetFormats ==
    /\ f_pc = "idle"
    /\ proc = "serving"
    /\ \E raw \in RawUrls :
        LET url == Strip(raw)
        IN  /\ f_url' = url
            /\ IF EmptyUrl(url)
               THEN /\ f_pc' = "done"
                    /\ f_response' = [status |-> 400, kind |-> "json",
                                      body |-> Error("No URL provided")]
                    /\ f_n' = 0
               ELSE /\ f_pc' = "loop"
                    /\ f_response' = NoResponse
                    /\ f_n' = DefaultMaxRetries
    /\ f_entry' = "route"
    /\ UNCHANGED <<f_attempt, f_trace, f_last, f_calls, urlVars, procVars, dlVars>>

\* get_video_info_with_retry(url, max_retries) called directly; with
\* max_retries = 0 the loop body never runs.
CallRetry ==
    /\ f_pc = "idle"
    /\ proc = "serving"
    /\ \E url \in DirectUrls, n \in 0..MaxRetries :
        /\ f_url' = url
        /\ f_n' = n
        /\ IF n = 0
           THEN /\ f_pc' = "done"
                /\ f_response' = [status |-> 0, kind |-> "return", body |-> AllFailed]
           ELSE /\ f_pc' = "loop"
                /\ f_response' = NoResponse
    /\ f_entry' = "direct"
    /\ UNCHANGED <<f_attempt, f_trace, f_last, f_calls, urlVars, procVars, dlVars>>

\* What the caller of the loop does with what the loop returns: the route
\* sends it as JSON with status 200, error or not.
Returned(info) ==
    IF f_entry = "route"
    THEN [status |-> 200, kind |-> "json", body |-> info]
    ELSE [status |-> 0, kind |-> "return", body |-> info]

\* A faulty variant: the loop sleeps after the last attempt too.
SleepsAfterAlways(attempt, max_retries) == TRUE

\* Line 188: if attempt < max_retries - 1.
SleepsAfter(attempt, max_retries) == attempt < max_retries - 1

\* One iteration of the loop of get_video_info_with_retry, and the return
\* that follows a success or the last iteration.
Attempt ==
    /\ f_pc = "loop"
    /\ \E o1 \in IF ReachesLibrary(f_url) THEN RequestOutcomes ELSE { NoOutcome } :
        \E o2 \in IF o1.kind = "UnicodeDecodeError"
                  THEN RequestOutcomes ELSE { NoOutcome } :
            LET r == get_video_info(f_url, cookie_file.exists, o1, o2)
            IN  /\ f_last' = Called(f_url, o1, o2)
                /\ f_calls' = f_calls \o r.calls
                /\ IF "error" \notin DOMAIN r.result
                   THEN /\ f_pc' = "done"
                        /\ f_response' = Returned(r.result)
                        /\ f_trace' = Append(f_trace, CallEvent)
                        /\ f_attempt' = f_attempt
                   ELSE /\ f_trace' =
                             IF SleepsAfter(f_attempt, f_n)
                             THEN f_trace \o <<CallEvent, SleepEvent>>
                             ELSE Append(f_trace, CallEvent)
                        /\ IF f_attempt + 1 < f_n
                           THEN /\ f_pc' = "loop"
                                /\ f_attempt' = f_attempt + 1
                                /\ f_response' = NoResponse
                           ELSE /\ f_pc' = "done"
                                /\ f_attempt' = f_attempt
                                /\ f_response' = Returned(AllFailed)
    /\ UNCHANGED <<f_entry, f_url, f_n, urlVars, procVars, dlVars>>

\* The request is over; the next one starts from scratch.
NextRequest ==
    /\ f_pc = "done"
    /\ f_pc' = "idle"
    /\ f_entry' = "none"
    /\ f_url' = <<>>
    /\ f_n' = 0
    /\ f_attempt' = 0
    /\ f_trace' = <<>>
    /\ f_last' = NoLast
    /\ f_calls' = <<>>
    /\ f_response' = NoResponse
    /\ UNCHANGED <<urlVars, procVars, dlVars>>

(***************************************************************************)
(* POST /download: download_video, download_audio, send_file.              *)
(***************************************************************************)
\* The raw values of the form field quality.
RawQualities ==
    { <<>>, <<" ">>, <<"mp3">>, <<" ", "mp3", " ">>, <<"MP3">>, <<"720">>,
      <<"1080", " ">> }

\* The raw values of the form field url.
RawDownloadUrls ==
    { <<>>, <<" ">>, YouTubeUrl, <<" ">> \o YouTubeUrl \o <<" ">>,
      <<"https:", "//", "vimeo.com", "/", "watch", "/", "1">> }

\* info['title'] as the library resolves it: one video per site here.
TitleOf(url) == IF is_valid_youtube_url(url) THEN "Some Title" ELSE "Other Title"

\* ydl.prepare_filename(info) under outtmpl, with the extension replaced:
\* DOWNLOAD_FOLDER/<title>.<ext>.
FilePath(url, ext) == <<DOWNLOAD_FOLDER, TitleOf(url), ext>>

\* os.path.basename(file_path)
Basename(path) == <<path[2], path[3]>>

VideoFormat(resolution) ==
    <<"bestvideo[height<=">> \o resolution \o <<"]+bestaudio/best[height<=">>
        \o resolution \o <<"]">>

VideoExtra(resolution) ==
    ( "format" :> VideoFormat(resolution) ) @@ ( "merge_output_format" :> "mp4" )

AudioExtra ==
    ( "format" :> <<"bestaudio/best">> ) @@
    ( "postprocessors" :>
        << ( "key" :> "FFmpegExtractAudio" ) @@ ( "preferredcodec" :> "mp3" ) @@
           ( "preferredquality" :> "192" ) >> )

\* A faulty variant: only the URL is required.
MissingFieldsUrlOnly(url, quality) == url = <<>>

\* Line 261: if not url or not quality.
MissingFields(url, quality) == url = <<>> \/ quality = <<>>

\* Line 265: if quality == 'mp3'.
IsAudio(quality) == quality = <<"mp3">>

\* The library call of download_audio(url) or download_video(url, quality).
DownloadCall(url, quality, cookie_exists) ==
    LibCall(url, TRUE,
            build_ydl_opts(IF IsAudio(quality) THEN AudioExtra ELSE VideoExtra(quality),
                           cookie_exists))

\* Whether the library can parse the format selector built from quality:
\* the height filter takes a number.
SelectorParses(quality) == IsAudio(quality) \/ quality \in { <<"720">>, <<"1080">> }

\* The path download_audio / download_video returns.
DownloadPath(url, quality) == FilePath(url, IF IsAudio(quality) THEN "mp3" ELSE "mp4")

TextResponse(status, body) == [status |-> status, kind |-> "text", body |-> body]

\* POST /download up to the library call: the form fields are read and
\* stripped, and a missing one ends the request.
Download(w) ==
    /\ d_pc[w] = "idle"
    /\ proc = "serving"
    /\ d_requests < MaxRequests
    /\ d_requests' = d_requests + 1
    /\ \E raw_url \in RawDownloadUrls, raw_quality \in RawQualities :
        LET url == Strip(raw_url)
            quality == Strip(raw_quality)
        IN  /\ d_url' = [d_url EXCEPT ![w] = url]
            /\ d_quality' = [d_quality EXCEPT ![w] = quality]
            /\ IF MissingFields(url, quality)
               THEN /\ d_pc' = [d_pc EXCEPT ![w] = "done"]
                    /\ d_response' = [d_response EXCEPT ![w] =
                            TextResponse(400, <<"Missing URL or quality">>)]
               ELSE /\ d_pc' = [d_pc EXCEPT ![w] = "extract"]
                    /\ UNCHANGED d_response
    /\ UNCHANGED <<d_path, d_calls, d_exc, fs, urlVars, procVars, infoVars>>

\* ydl.extract_info(url, download=True): the library writes the file the
\* path names, or raises; the exception is re-raised and caught at line 279.
Extract(w) ==
    /\ d_pc[w] = "extract"
    /\ d_calls' = [d_calls EXCEPT ![w] =
            Append(@, DownloadCall(d_url[w], d_quality[w], cookie_file.exists))]
    /\ \/ /\ SelectorParses(d_quality[w])
          /\ fs' = ( DownloadPath(d_url[w], d_quality[w]) :>
                        [url |-> d_url[w], quality |-> d_quality[w], by |-> w] ) @@ fs
          /\ d_path' = [d_path EXCEPT ![w] = DownloadPath(d_url[w], d_quality[w])]
          /\ d_pc' = [d_pc EXCEPT ![w] = "send"]
          /\ UNCHANGED <<d_exc, d_response>>
       \/ /\ d_exc' = [d_exc EXCEPT ![w] = "extract"]
          /\ d_response' = [d_response EXCEPT ![w] =
                TextResponse(500, <<"Download failed: ", "ERROR: unable to download">>)]
          /\ d_pc' = [d_pc EXCEPT ![w] = "done"]
          /\ UNCHANGED <<d_path, fs>>
    /\ UNCHANGED <<d_url, d_quality, d_requests, urlVars, procVars, infoVars>>

\* send_file(file_path, ...): the file now at the path is streamed, or
\* send_file raises and the exception is caught at line 279.
Send(w) ==
    /\ d_pc[w] = "send"
    /\ \/ /\ d_path[w] \in DOMAIN fs
          /\ d_response' = [d_response EXCEPT ![w] =
                [status |-> 200, kind |-> "file",
                 body |-> [content |-> fs[d_path[w]],
                           download_name |-> Basename(d_path[w])]]]
          /\ UNCHANGED d_exc
       \/ /\ d_exc' = [d_exc EXCEPT ![w] = "send"]
          /\ d_response' = [d_response EXCEPT ![w] =
                TextResponse(500, <<"Download failed: ", "[Errno 5] Input/output error">>)]
    /\ d_pc' = [d_pc EXCEPT ![w] = "done"]
    /\ UNCHANGED <<d_url, d_quality, d_path, d_calls, d_requests, fs,
                   urlVars, procVars, infoVars>>

\* The worker is free for its next request; the download folder stays.
Release(w) ==
    /\ d_pc[w] = "done"
    /\ d_pc' = [d_pc EXCEPT ![w] = "idle"]
    /\ d_url' = [d_url EXCEPT ![w] = <<>>]
    /\ d_quality' = [d_quality EXCEPT ![w] = <<>>]
    /\ d_path' = [d_path EXCEPT ![w] = <<>>]
    /\ d_calls' = [d_calls EXCEPT ![w] = <<>>]
    /\ d_exc' = [d_exc EXCEPT ![w] = "none"]
    /\ d_response' = [d_response EXCEPT ![w] = NoResponse]
    /\ UNCHANGED <<d_requests, fs, urlVars, procVars, infoVars>>

(***************************************************************************)
(* Specifications.                                                         *)
(***************************************************************************)
\* is_valid_youtube_url applied to every string of UrlStrings.
InitUrl == UrlInit /\ ProcInitServing /\ InfoIdle /\ DlIdle
NextUrl == Validate
SpecUrl == InitUrl /\ [][NextUrl]_vars

\* Start-up, then any number of build_ydl_opts calls.
InitCookie == UrlIdle /\ ProcInitBoot /\ InfoIdle /\ DlIdle
NextCookie == Startup \/ BuildOpts
SpecCookie == InitCookie /\ [][NextCookie]_vars

\* get_video_info applied once to every URL and library outcome.
InitInfo == UrlIdle /\ ProcInitServing /\ InfoIdle /\ DlIdle
NextInfo == CallGetVideoInfo \/ NextRequest
SpecInfo == InitInfo /\ [][NextInfo]_vars

\* POST /get_formats requests and direct calls of the retry wrapper.
Init == UrlIdle /\ ProcInitServing /\ InfoIdle /\ DlIdle
Next == GetFormats \/ CallRetry \/ Attempt \/ NextRequest
Spec == Init /\ [][Next]_vars

\* POST /download requests on two workers.
InitDownload == UrlIdle /\ ProcInitServing /\ InfoIdle /\ DlIdle
NextDownload ==
    \E w \in Workers : Download(w) \/ Extract(w) \/ Send(w) \/ Release(w)
SpecDownload == InitDownload /\ [][NextDownload]_vars

(***************************************************************************)
(* Claims.                                                                 *)
(***************************************************************************)

\* The host a URL names: the authority without its userinfo.
RECURSIVE AfterLastAt(_)
AfterLastAt(n) ==
    IF \E i \in 1..Len(n) : n[i] = "@"
    THEN AfterLastAt(SubSeq(n, FirstIn(n, {"@"}, 1) + 1, Len(n)))
    ELSE n

UrlHost(url) == AfterLastAt(Netloc(url))

\* C1: is_valid_youtube_url accepts a string exactly when the host of the
\* URL is one of the allowed domains; a host that only contains an allowed
\* domain, a URL without host and a non-URL string are rejected.
C1_AcceptsExactlyAllowedHosts ==
    v_done => (v_result <=> UrlHost(v_url) \in valid_domains)

OptsBuilt == opts_out # EmptyDict

HasCookiefile(opts) ==
    "cookiefile" \in DOMAIN opts /\ opts["cookiefile"] = COOKIE_PATH

\* Keys of extra override the defaults, every other default key is kept,
\* and the only key that may be added is cookiefile.
MergesExtra(opts, extra) ==
    /\ \A k \in DOMAIN extra : k \in DOMAIN opts /\ opts[k] = extra[k]
    /\ \A k \in DOMAIN DefaultOpts \ DOMAIN extra :
            k \in DOMAIN opts /\ opts[k] = DefaultOpts[k]
    /\ DOMAIN opts \subseteq DOMAIN DefaultOpts \cup DOMAIN extra \cup {"cookiefile"}

\* C7 as stated: the environment variable is read once, at start-up; then
\* an options dict built without cookiefile in extra names COOKIE_PATH if
\* and only if the blob was supplied, decoded and written at start-up; and
\* extra overrides the defaults.
C7_CookiefileIffWrittenAtStartup ==
    /\ env_reads <= 1
    /\ proc = "serving" => env_reads = 1
    /\ (OptsBuilt /\ "cookiefile" \notin DOMAIN extra_in) =>
            (HasCookiefile(opts_out) <=> startup_ret)
    /\ OptsBuilt => MergesExtra(opts_out, extra_in)

\* C7 as amended: the environment variable is read once, at start-up; then
\* an options dict built without cookiefile in extra names COOKIE_PATH if
\* and only if a file exists at COOKIE_PATH when the dict is built, which a
\* successful write at start-up guarantees; and extra overrides the
\* defaults.
C7_CookiefileIffFileExists ==
    /\ env_reads <= 1
    /\ proc = "serving" => env_reads = 1
    /\ startup_ret => cookie_file.exists
    /\ (OptsBuilt /\ "cookiefile" \notin DOMAIN extra_in) =>
            (HasCookiefile(opts_out) <=> cookie_file.exists)
    /\ OptsBuilt => MergesExtra(opts_out, extra_in)

\* C7 witness: after a successful write at start-up, a dict was built with
\* an extra that overrides a default and carries no cookiefile.
C7_Witness ==
    /\ startup_ret
    /\ OptsBuilt
    /\ "quiet" \in DOMAIN extra_in
    /\ "cookiefile" \notin DOMAIN extra_in
    /\ HasCookiefile(opts_out)

\* The categories of C8 in their order: the substrings that select each
\* (matched as written, or in any letter case) and its message.
CategoryOrder ==
    << [exact |-> { "Private video" }, anycase |-> {}, msg |-> MsgPrivate],
       [exact |-> { "Members-only" }, anycase |-> {}, msg |-> MsgMembers],
       [exact |-> { "Sign in" }, anycase |-> { "login", "Login" }, msg |-> MsgBlocked],
       [exact |-> { "Video unavailable" }, anycase |-> {}, msg |-> MsgUnavailable],
       [exact |-> { "Too Many Requests", "429" }, anycase |-> {}, msg |-> MsgRateLimit],
       [exact |-> { "Unsupported URL" }, anycase |-> {}, msg |-> MsgUnsupported] >>

Occurs(cat, text) == \E i \in 1..Len(text) : text[i] \in cat.exact \cup cat.anycase

Matching(text) == { i \in 1..Len(CategoryOrder) : Occurs(CategoryOrder[i], text) }

Min(S) == CHOOSE m \in S : \A x \in S : m <= x

\* The message of the earliest category that occurs in text.
Selected(text) ==
    IF Matching(text) = {}
    THEN MsgGeneric(text)
    ELSE CategoryOrder[Min(Matching(text))].msg

LastWasDownloadError == f_last.called /\ f_last.o1.kind = "DownloadError"

\* C2: when extraction fails during POST /get_formats with a library error
\* whose text matches a recognised substring, the JSON error object sent to
\* the caller carries the message of the category selected for that text.
C2_ResponseCarriesCategoryMessage ==
    ( /\ f_pc = "done"
      /\ f_entry = "route"
      /\ LastWasDownloadError
      /\ Matching(f_last.o1.msg) # {} )
    => /\ "error" \in DOMAIN f_response.body
       /\ f_response.body["error"] = Selected(f_last.o1.msg)["error"]

\* The info dict the last call of get_video_info built its result from.
LastSucceeded ==
    /\ f_last.called
    /\ \/ f_last.o1.kind = "ok"
       \/ f_last.o1.kind = "UnicodeDecodeError" /\ f_last.o2.kind = "ok"

LastInfo == IF f_last.o1.kind = "ok" THEN f_last.o1.info ELSE f_last.o2.info

DocumentedDefault(k) ==
    CASE k = "title" -> "Unknown Title"
      [] k = "thumbnail" -> ""
      [] k = "duration" -> 0
      [] k = "uploader" -> "Unknown"

\* C3: every successful result of POST /get_formats, on the normal path and
\* on the simplified-options retry after a UnicodeDecodeError, is a JSON
\* object without an error key that holds title, thumbnail, duration,
\* resolutions and uploader, a field the extractor did not supply holding
\* its documented default.
C3_SuccessHasAllFields ==
    (f_entry = "route" /\ LastSucceeded) =>
        /\ f_pc = "done"
        /\ f_response.status = 200
        /\ "error" \notin DOMAIN f_response.body
        /\ { "title", "thumbnail", "duration", "resolutions", "uploader" }
                \subseteq DOMAIN f_response.body
        /\ \A k \in { "title", "thumbnail", "duration", "uploader" } :
                f_response.body[k] =
                    IF k \in DOMAIN LastInfo THEN LastInfo[k] ELSE DocumentedDefault(k)

\* C3 witness: a request succeeded on the retry after a UnicodeDecodeError
\* with an info dict that has no uploader.
C3_Witness ==
    /\ f_entry = "route"
    /\ f_pc = "done"
    /\ f_last.called
    /\ f_last.o1.kind = "UnicodeDecodeError"
    /\ f_last.o2.kind = "ok"
    /\ "uploader" \notin DOMAIN f_last.o2.info
    /\ "title" \in DOMAIN f_last.o2.info
    /\ f_response.body["uploader"] = "Unknown"

NCalls == Cardinality({ i \in 1..Len(f_trace) : f_trace[i].ev = "call" })

LastEvent == f_trace[Len(f_trace)].ev

LastFailed == f_last.called => "error" \in DOMAIN f_last.result

\* C4: get_video_info_with_retry(url, n) calls get_video_info at most n
\* times, returns the first result without an error key at once, retries
\* after every failed attempt whatever its kind, sleeps 1 second between two
\* consecutive attempts and never after the last, and after n failed
\* attempts returns an error object.
C4_FixedCountLoop ==
    /\ NCalls <= f_n
    /\ \A i \in 1..Len(f_trace) :
            f_trace[i] = IF i % 2 = 1
                         THEN [ev |-> "call", secs |-> 0]
                         ELSE [ev |-> "sleep", secs |-> 1]
    /\ f_pc = "loop" =>
            /\ NCalls = f_attempt
            /\ f_attempt < f_n
            /\ LastFailed
            /\ f_trace # <<>> => LastEvent = "sleep"
    /\ (f_pc = "done" /\ f_entry \in { "route", "direct" } /\ f_response.status # 400) =>
            /\ f_trace # <<>> => LastEvent = "call"
            /\ IF "error" \notin DOMAIN f_response.body
               THEN f_last.called /\ f_response.body = f_last.result
               ELSE /\ NCalls = f_n
                    /\ LastFailed
                    /\ f_response.body = AllFailed

\* C4 witness: three attempts failed on a URL that never reaches the
\* library, with a sleep between them and none at the end.
C4_Witness ==
    /\ f_pc = "done"
    /\ f_n = 3
    /\ Len(f_trace) = 5
    /\ f_last.called
    /\ f_last.o1.kind = "none"
    /\ f_response.body = AllFailed

\* C8: for every DownloadError text the message get_video_info selects is
\* that of the earliest category, in the order Private video, Members-only,
\* Sign in / login, Video unavailable, Too Many Requests / 429, Unsupported
\* URL, whose substring occurs in the text, and the generic message if none
\* occurs.
C8_FirstMatchPrecedence ==
    LastWasDownloadError => f_last.result = Selected(f_last.o1.msg)

\* C8 witness: a text with both "Sign in" and "Private video" was
\* classified as private.
C8_Witness ==
    /\ LastWasDownloadError
    /\ f_last.o1.msg = <<"Sign in", "Private video">>
    /\ f_last.result = MsgPrivate

\* The heights C9 expects: at least 144 and carried by a format whose
\* vcodec is not 'none'.
ExpectedHeights(formats) ==
    { h \in Heights :
        /\ h >= 144
        /\ \E i \in 1..Len(formats) :
            /\ "height" \in DOMAIN formats[i]
            /\ formats[i]["height"] = h
            /\ ~("vcodec" \in DOMAIN formats[i] /\ formats[i]["vcodec"] = "none") }

\* C9: on the normal path the resolutions are the distinct heights >= 144
\* of the formats whose vcodec is not 'none', strictly descending, each as
\* "<h>p", followed by "mp3" as the last element and nowhere else.
C9_ResolutionsSortedWithMp3 ==
    (f_entry = "info" /\ f_last.called /\ f_last.o1.kind = "ok") =>
        LET res == f_last.result["resolutions"]
            H == ExpectedHeights(Get(f_last.o1.info, "formats", <<>>))
            n == Cardinality(H)
        IN  /\ Len(res) = n + 1
            /\ res[n + 1] = "mp3"
            /\ \A i \in 1..n : res[i] # "mp3"
            /\ \E hs \in [1..n -> H] :
                /\ \A i \in 1..n : \A j \in 1..n : i < j => hs[i] > hs[j]
                /\ \A i \in 1..n : res[i] = ToString(hs[i]) \o "p"

\* C9 witness: two video formats listed in ascending order came out as
\* 720p, 144p, mp3.
C9_Witness ==
    /\ f_entry = "info"
    /\ f_last.called
    /\ f_last.o1.kind = "ok"
    /\ "formats" \in DOMAIN f_last.o1.info
    /\ Len(f_last.o1.info["formats"]) = 2
    /\ f_last.o1.info["formats"][1] = ( "vcodec" :> "avc1" ) @@ ( "height" :> 144 )
    /\ f_last.result["resolutions"] = <<"720p", "144p", "mp3">>

\* C5: for every interleaving of two POST /download requests handled by
\* different workers, the file each request streams back is the file its
\* own download call produced, with its own requested quality.
C5_EachRequestStreamsItsOwnFile ==
    \A w \in Workers :
        (d_pc[w] = "done" /\ d_response[w].kind = "file") =>
            /\ d_response[w].body.content.quality = d_quality[w]
            /\ d_response[w].body.content.url = d_url[w]

IsAudioCall(call) ==
    /\ "postprocessors" \in DOMAIN call.opts
    /\ call.opts["format"] = <<"bestaudio/best">>

IsVideoCallUpTo(call, quality) ==
    /\ "postprocessors" \notin DOMAIN call.opts
    /\ call.opts["merge_output_format"] = "mp4"
    /\ call.opts["format"] =
            <<"bestvideo[height<=">> \o quality \o
            <<"]+bestaudio/best[height<=">> \o quality \o <<"]">>

\* C6: POST /download answers 400 "Missing URL or quality" without a
\* library call if url or quality is empty after stripping; otherwise it
\* makes exactly one library call, the audio one when quality is exactly
\* "mp3" and else the video one with quality as height ceiling, and streams
\* the file with status 200 or, when that call or send_file raised, answers
\* 500 with a text that starts "Download failed:".
C6_FileOrPlainTextError ==
    \A w \in Workers :
        /\ d_pc[w] \in { "idle", "extract" } => d_calls[w] = <<>>
        /\ d_pc[w] = "send" => Len(d_calls[w]) = 1 /\ d_exc[w] = "none"
        /\ d_pc[w] = "done" =>
            IF d_url[w] = <<>> \/ d_quality[w] = <<>>
            THEN /\ d_calls[w] = <<>>
                 /\ d_response[w].status = 400
                 /\ d_response[w].kind = "text"
                 /\ d_response[w].body = <<"Missing URL or quality">>
            ELSE /\ Len(d_calls[w]) = 1
                 /\ d_calls[w][1].url = d_url[w]
                 /\ d_calls[w][1].download
                 /\ IF d_quality[w] = <<"mp3">>
                    THEN IsAudioCall(d_calls[w][1])
                    ELSE IsVideoCallUpTo(d_calls[w][1], d_quality[w])
                 /\ IF d_exc[w] = "none"
                    THEN d_response[w].status = 200 /\ d_response[w].kind = "file"
                    ELSE /\ d_response[w].status = 500
                         /\ d_response[w].kind = "text"
                         /\ d_response[w].body[1] = "Download failed: "

\* C6 witness: one worker answered 400 to a quality of blanks while the
\* other, asked for " mp3 ", made the audio call and failed in send_file.
C6_Witness ==
    \E w \in Workers, v \in Workers :
        /\ d_pc[w] = "done"
        /\ d_quality[w] = <<"mp3">>
        /\ d_exc[w] = "send"
        /\ d_response[w].status = 500
        /\ d_pc[v] = "done"
        /\ d_url[v] # <<>>
        /\ d_quality[v] = <<>>
        /\ d_response[v].status = 400

ValidatedCall(call) == Strip(call.url) # <<>> /\ is_valid_youtube_url(call.url)

\* C10: on every route the extraction library is only ever invoked with a
\* URL that is not empty after stripping and that is_valid_youtube_url
\* accepts.
C10_ValidationGatesEveryCall ==
    /\ \A i \in 1..Len(f_calls) : ValidatedCall(f_calls[i])
    /\ \A w \in Workers : \A i \in 1..Len(d_calls[w]) : ValidatedCall(d_calls[w][i])

=============================================================================
